---- MODULE Spec2Model ----
(***************************************************************************)
(* Model of input_pipeline.py: the Pipeline class (construction, the       *)
(* tf.data stream behind get_batch, the per-record _parse_and_preprocess)   *)
(* and the crop routine.                                                    *)
(*                                                                          *)
(* Numbers.  The code computes in float32 and so does the model: a         *)
(* coordinate is a float32 [m, e] (m * 2^e, or an infinity or NaN), and     *)
(* every operation on coordinates rounds as float32 does.  Image pixels    *)
(* are not modelled, only image shapes.                                     *)
(***************************************************************************)
EXTENDS Integers, Sequences, FiniteSets, TLC

----------------------------------------------------------------------------
(* Bounds of the model *)

MaxShards == 2          \* at most this many tfrecords files
MaxPerShard == 2        \* each file holds 0..MaxPerShard records
MaxBatchSize == 2       \* batch_size ranges over 1..MaxBatchSize
MaxCalls == 3           \* get_batch calls followed (repeat=True never ends)
MaxSide == 2            \* target image_size is [MaxSide + 1, MaxSide]
MaxLandmarks == 1       \* num_landmarks ranges over 1..MaxLandmarks
GridDen == 3            \* a record's box scalars are the float32 of k/GridDen
MaxDim == 4             \* a decoded image is h x w pixels, h and w in 1..MaxDim

(* Program constants *)

SHUFFLE_BUFFER_SIZE == 10000
CHANNELS == 3

None == "None"

VARIABLES
    pc,             \* "new", "failed" (AssertionError in __init__), "ready", "exhausted"
    filenames,      \* the shards: filenames[i] is the number of records file i holds
    batch_size, image_width, image_height, num_landmarks,
    repeat, shuffle, augmentation,
    num_examples,   \* self.num_examples
    files_read,     \* how many files __init__ has iterated over
    iterator,       \* self.iterator: None or the position in the stream
    calls,          \* number of get_batch calls made
    batches,        \* number of batches get_batch has returned
    batch,          \* the last batch returned: a sequence of examples
    \* one call of _parse_and_preprocess (the function dataset.map runs per record)
    stage,          \* "idle", "record" (called), "parsed", "done" (returned), "error"
    example_proto,  \* the serialized record the call was given
    image,          \* shape of the image tensor
    box,            \* <<ymin, xmin, ymax, xmax>>
    landmarks,      \* sequence of num_landmarks points <<y, x>>
    ops,            \* the transforms called so far, in order: <<name, applied>>
    region          \* the values crop computed on the way (its locals)

config == <<filenames, batch_size, image_width, image_height, num_landmarks,
            repeat, shuffle, augmentation>>

stream == <<num_examples, files_read, iterator, calls, batches, batch>>

call == <<stage, example_proto, image, box, landmarks, ops, region>>

vars == <<pc, config, stream, call>>

----------------------------------------------------------------------------
(* Helpers *)

RECURSIVE SumSeq(_)
SumSeq(s) == IF s = <<>> THEN 0 ELSE s[1] + SumSeq(Tail(s))

ShardPermutations(n) ==
    {p \in [1..n -> 1..n] : \A i, j \in 1..n : i # j => p[i] # p[j]}

SeqsUpTo(S, n) == UNION {[1..k -> S] : k \in 0..n}

----------------------------------------------------------------------------
(* Image shapes: tf.image.resize_images and tf.transpose act on shapes as    *)
(* follows (the pixels are not modelled).                                    *)

\* tf.image.resize_images(image, [new_height, new_width]) on an HWC image
ResizeImages(shape, size) == <<size[1], size[2], shape[3]>>

\* tf.transpose(image, perm): output axis i is input axis perm[i] (0-based)
Transpose(shape, perm) == [i \in 1..Len(perm) |-> shape[perm[i] + 1]]

----------------------------------------------------------------------------
(* Pipeline.__init__, lines 32-41: count the records of every file in turn.  *)
(* The loop stops at the first file with no records (assert, line 38);       *)
(* after the loop the total must be positive (assert, line 41).              *)

RECURSIVE CountExamplesSkipping(_, _, _)
CountExamplesSkipping(fs, i, n) ==
    IF i > Len(fs)
    THEN [ok |-> n > 0, num_examples |-> n, files_read |-> Len(fs)]
    ELSE CountExamplesSkipping(fs, i + 1, n + fs[i])

RECURSIVE CountExamplesFrom(_, _, _)
CountExamplesFrom(fs, i, n) ==
    IF i > Len(fs)
    THEN [ok |-> n > 0, num_examples |-> n, files_read |-> Len(fs)]
    ELSE IF ~(fs[i] > 0)
         THEN [ok |-> FALSE, num_examples |-> None, files_read |-> i]
         ELSE CountExamplesFrom(fs, i + 1, n + fs[i])

CountExamples(fs) == CountExamplesFrom(fs, 1, 0)

----------------------------------------------------------------------------
(* The dataset of lines 43-58 and its one-shot iterator (line 60).           *)
(* An iterator position is [order, left, read]: the order in which the       *)
(* shards are read in the current pass, the records each shard still holds,  *)
(* and the number of records already taken in this pass.                     *)

\* lines 43-47: from_tensor_slices(filenames), shuffled over all num_shards
ShardOrders ==
    IF shuffle THEN {[i \in 1..Len(filenames) |-> p[i]] : p \in ShardPermutations(Len(filenames))}
    ELSE {[i \in 1..Len(filenames) |-> i]}

\* a fresh pass over the data (dataset.repeat restarts everything upstream)
StartEpoch == {[order |-> o, left |-> filenames, read |-> 0] : o \in ShardOrders}

\* line 49, flat_map: 0-based position, in the flattened record stream of this
\* pass, of the first record of the k-th shard of the order not yet taken
UpstreamIndex(it, k) ==
    SumSeq([j \in 1..(k - 1) |-> filenames[it.order[j]]])
        + (filenames[it.order[k]] - it.left[it.order[k]])

\* lines 52-53: a shuffle buffer of SHUFFLE_BUFFER_SIZE records lets any record
\* among the first read + SHUFFLE_BUFFER_SIZE of the pass come next; without
\* shuffle the next record of the stream comes next
Window == IF shuffle THEN SHUFFLE_BUFFER_SIZE ELSE 1

Candidates(it) ==
    {it.order[k] : k \in {j \in 1..Len(it.order) :
        /\ it.left[it.order[j]] > 0
        /\ UpstreamIndex(it, j) < it.read + Window}}

Advance(it, s) == [it EXCEPT !.left[s] = @ - 1, !.read = @ + 1]

\* line 54, dataset.repeat(None if repeat else 1): the next record of the
\* stream as <<shard, position after it>>; the empty set is end of sequence
NextElement(it) ==
    IF Candidates(it) # {}
    THEN {<<s, Advance(it, s)>> : s \in Candidates(it)}
    ELSE IF repeat
         THEN UNION {{<<s, Advance(e, s)>> : s \in Candidates(e)} : e \in StartEpoch}
         ELSE {}

\* line 55, dataset.map(self._parse_and_preprocess): the shapes of one example
\* (lines 116-122 / 131-134: resize to [image_height, image_width], then
\* transpose to channel-first; landmarks reshaped to [num_landmarks, 2]).
\* The stream is followed for records the map function accepts; what the
\* function computes for a record is followed by the actions further down.
MapExample(s) ==
    [src |-> s,
     image |-> Transpose(ResizeImages(<<0, 0, CHANNELS>>, <<image_height, image_width>>),
                         <<2, 0, 1>>),
     landmarks |-> <<num_landmarks, 2>>]

\* line 57, dataset.batch(batch_size): up to n records are taken from the
\* stream; a batch is cut short by the end of the sequence (batch is called
\* without drop_remainder).  The prefetches of lines 50 and 58 only read
\* ahead: they change neither the records nor their order.
RECURSIVE Take(_, _)
Take(it, n) ==
    IF n = 0 \/ NextElement(it) = {}
    THEN {<<<<>>, it>>}
    ELSE UNION {{<<<<MapExample(e[1])>> \o r[1], r[2]>> : r \in Take(e[2], n - 1)}
                : e \in NextElement(it)}

----------------------------------------------------------------------------
(* Actions of the pipeline *)

Init ==
    /\ pc = "new"
    /\ filenames \in SeqsUpTo(0..MaxPerShard, MaxShards)
    /\ batch_size \in 1..MaxBatchSize
    /\ image_width = MaxSide + 1
    /\ image_height = MaxSide
    /\ num_landmarks \in 1..MaxLandmarks
    /\ repeat \in BOOLEAN
    /\ shuffle \in BOOLEAN
    /\ augmentation \in BOOLEAN
    /\ num_examples = None
    /\ files_read = 0
    /\ iterator = None
    /\ calls = 0
    /\ batches = 0
    /\ batch = <<>>
    /\ stage = "idle"
    /\ example_proto = None
    /\ image = None
    /\ box = None
    /\ landmarks = None
    /\ ops = <<>>
    /\ region = None

\* Pipeline.__init__ succeeds: both asserts pass, the iterator is made
Construct ==
    /\ pc = "new"
    /\ CountExamples(filenames).ok
    /\ num_examples' = CountExamples(filenames).num_examples
    /\ files_read' = CountExamples(filenames).files_read
    /\ iterator' \in StartEpoch
    /\ pc' = "ready"
    /\ UNCHANGED <<config, calls, batches, batch, call>>

\* Pipeline.__init__ raises AssertionError (line 38 or 41): no dataset, no iterator
ConstructFails ==
    /\ pc = "new"
    /\ ~CountExamples(filenames).ok
    /\ num_examples' = CountExamples(filenames).num_examples
    /\ files_read' = CountExamples(filenames).files_read
    /\ pc' = "failed"
    /\ UNCHANGED <<config, iterator, calls, batches, batch, call>>

\* get_batch evaluated once: iterator.get_next() returns the next batch
GetBatch ==
    /\ pc = "ready"
    /\ calls < MaxCalls
    /\ \E r \in Take(iterator, batch_size) :
        /\ r[1] # <<>>
        /\ batch' = r[1]
        /\ iterator' = r[2]
    /\ calls' = calls + 1
    /\ batches' = batches + 1
    /\ UNCHANGED <<pc, config, num_examples, files_read, call>>

\* get_batch evaluated once at the end of the sequence: OutOfRangeError
GetBatchOutOfRange ==
    /\ pc = "ready"
    /\ calls < MaxCalls
    /\ NextElement(iterator) = {}
    /\ pc' = "exhausted"
    /\ calls' = calls + 1
    /\ UNCHANGED <<config, num_examples, files_read, iterator, batches, batch, call>>

Next == Construct \/ ConstructFails \/ GetBatch \/ GetBatchOutOfRange

Spec == Init /\ [][Next]_vars

----------------------------------------------------------------------------
(* float32 arithmetic.  The box and the landmarks are tf.float32 tensors      *)
(* (lines 86-90, 104, 108): each operation gives the float32 nearest to the  *)
(* exact result, a tie going to the even mantissa.  A finite value is        *)
(* [m, e], standing for m * 2^e, with m odd and |m| < 2^MANTISSA_BITS, or    *)
(* m = 0 and e = 0.  The values that are not finite have e = MAX_EXPONENT:   *)
(* m = 1 is +inf, m = -1 is -inf, m = 0 is NaN.  The sign of a zero is not   *)
(* kept.                                                                     *)

MANTISSA_BITS == 24     \* significant bits of a float32
MIN_EXPONENT == 149     \* the smallest positive float32 is 2^-MIN_EXPONENT
MAX_EXPONENT == 128     \* every finite float32 is below 2^MAX_EXPONENT

Sign(x) == IF x > 0 THEN 1 ELSE IF x < 0 THEN -1 ELSE 0
Abs(x) == IF x < 0 THEN -x ELSE x
Max(x, y) == IF x >= y THEN x ELSE y

RECURSIVE Doubled(_)
Doubled(k) == IF k = 0 THEN 1 ELSE 2 * Doubled(k - 1)

\* 2^k for k in 0..30, from a table
Powers == [k \in 0..30 |-> Doubled(k)]
Pow2(k) == Powers[k]

\* number of bits of n >= 0
RECURSIVE BitLen(_)
BitLen(n) ==
    IF n = 0 THEN 0
    ELSE IF n >= 4096 THEN 12 + BitLen(n \div 4096)
    ELSE 1 + BitLen(n \div 2)

\* the value m * 2^e, which is a float32, in the form described above
RECURSIVE Float(_, _)
Float(m, e) ==
    IF m = 0 THEN [m |-> 0, e |-> 0]
    ELSE IF (m % 4096) = 0 THEN Float(m \div 4096, e + 12)
    ELSE IF (m % 2) = 0 THEN Float(m \div 2, e + 1)
    ELSE [m |-> m, e |-> e]

Zero == Float(0, 0)
One == Float(1, 0)
Half == Float(1, -1)
Inf(s) == [m |-> s, e |-> MAX_EXPONENT]
NaN == [m |-> 0, e |-> MAX_EXPONENT]

IsFinite(a) == a.e # MAX_EXPONENT

\* s * n * 2^e for a mantissa n that fits: an infinity from 2^MAX_EXPONENT on
Finite(s, n, e) ==
    IF BitLen(n) + e > MAX_EXPONENT THEN Inf(s) ELSE Float(s * n, e)

\* round to nearest, ties to even: q is kept, r of the bits below it (half is
\* their midpoint) and the sticky rest are rounded away
RoundUp(q, r, half, sticky) ==
    r > half \/ (r = half /\ (sticky \/ (q % 2) = 1))

\* the k low bits of n are rounded away
RoundAt(s, n, e, sticky, k) ==
    IF n = 0 \/ k > 30 THEN Zero
    ELSE IF k = 0 THEN Finite(s, n, e)
    ELSE IF RoundUp(n \div Pow2(k), n % Pow2(k), Pow2(k - 1), sticky)
         THEN Finite(s, (n \div Pow2(k)) + 1, e + k)
         ELSE Finite(s, n \div Pow2(k), e + k)

\* the float32 nearest to s * (n + f) * 2^e, for a sign s, 0 <= n < 2^30 and
\* a fraction f in [0, 1) that is 0 unless sticky; with sticky n has more than
\* MANTISSA_BITS bits.  Rounded away are the bits of n beyond the mantissa and
\* those below 2^-MIN_EXPONENT (subnormal values).
Round(s, n, e, sticky) ==
    RoundAt(s, n, e, sticky,
            Max(Max(BitLen(n) - MANTISSA_BITS, (-MIN_EXPONENT) - e), 0))

\* tf.to_float of an integer below 2^30, and the float literals of the code
ToFloat(i) == Round(Sign(i), Abs(i), 0, FALSE)

ShiftUp(a, up) == [m |-> a.m * Pow2(up), e |-> a.e - up]

\* a finite a # 0 with its mantissa shifted up to exactly MANTISSA_BITS bits
Normal(a) == ShiftUp(a, MANTISSA_BITS - BitLen(Abs(a.m)))

FNeg(a) == [m |-> -a.m, e |-> a.e]

\* The product of two mantissas has up to 48 bits: it is formed from 12-bit
\* limbs as <<top, low>>, standing for top * 2^24 + low with low < 2^24.
Carry(hi, mid, lo) ==
    <<hi + (mid \div 4096), (mid % 4096) * 4096 + (lo % 4096)>>

Limbs(xh, xl, yh, yl) ==
    Carry(xh * yh, xh * yl + xl * yh + ((xl * yl) \div 4096), xl * yl)

Product(x, y) == Limbs(x \div 4096, x % 4096, y \div 4096, y % 4096)

\* the product's bits beyond 30, drop of them, go into the sticky flag
RoundProduct(s, p, e, drop) ==
    IF drop = 0 THEN Round(s, p[1] * Pow2(24) + p[2], e, FALSE)
    ELSE Round(s, p[1] * Pow2(24 - drop) + (p[2] \div Pow2(drop)), e + drop,
               (p[2] % Pow2(drop)) # 0)

MulFinite(s, p, e) == RoundProduct(s, p, e, Max(BitLen(p[1]) - 6, 0))

\* a * b
FMul(a, b) ==
    IF a = NaN \/ b = NaN THEN NaN
    ELSE IF ~IsFinite(a) \/ ~IsFinite(b)
         THEN (IF a.m = 0 \/ b.m = 0 THEN NaN ELSE Inf(Sign(a.m) * Sign(b.m)))
    ELSE MulFinite(Sign(a.m) * Sign(b.m), Product(Abs(a.m), Abs(b.m)), a.e + b.e)

RoundSum(s, sum, e, sticky) ==
    IF sum < 0 THEN Round(-s, -sum, e, sticky) ELSE Round(s, sum, e, sticky)

\* x with five guard bits plus or minus yq, the part of y at x's exponent;
\* sticky if bits of y fell off below it
AddParts(x, yq, ys, sticky) ==
    RoundSum(Sign(x.m),
             IF Sign(x.m) = ys THEN Abs(x.m) * 32 + yq
             ELSE IF sticky THEN Abs(x.m) * 32 - yq - 1
             ELSE Abs(x.m) * 32 - yq,
             x.e - 5, sticky)

\* x + y for x.e = y.e + d, d >= 0, both of MANTISSA_BITS bits
AddShifted(x, y, d) ==
    IF d > 30 THEN AddParts(x, 0, Sign(y.m), TRUE)
    ELSE AddParts(x, (Abs(y.m) * 32) \div Pow2(d), Sign(y.m),
                  ((Abs(y.m) * 32) % Pow2(d)) # 0)

AddFinite(x, y) ==
    IF x.e >= y.e THEN AddShifted(x, y, x.e - y.e) ELSE AddShifted(y, x, y.e - x.e)

\* a + b
FAdd(a, b) ==
    IF a = NaN \/ b = NaN THEN NaN
    ELSE IF ~IsFinite(a) THEN (IF ~IsFinite(b) /\ b.m # a.m THEN NaN ELSE a)
    ELSE IF ~IsFinite(b) THEN b
    ELSE IF a.m = 0 THEN b
    ELSE IF b.m = 0 THEN a
    ELSE AddFinite(Normal(a), Normal(b))

\* a - b
FSub(a, b) == FAdd(a, FNeg(b))

\* long division of two MANTISSA_BITS-bit mantissas: i more quotient bits
RECURSIVE LongDiv(_, _, _, _)
LongDiv(q, r, y, i) ==
    IF i = 0 THEN <<q, r>>
    ELSE IF 2 * r >= y THEN LongDiv(2 * q + 1, 2 * r - y, y, i - 1)
    ELSE LongDiv(2 * q, 2 * r, y, i - 1)

RoundQuotient(s, qr, e) == Round(s, qr[1], e, qr[2] # 0)

DivFinite(s, x, y) ==
    RoundQuotient(s, LongDiv(Abs(x.m) \div Abs(y.m), Abs(x.m) % Abs(y.m), Abs(y.m), 27),
                  x.e - y.e - 27)

\* a / b.  A finite a # 0 over zero is an infinity, 0 / 0 is NaN.
FDiv(a, b) ==
    IF a = NaN \/ b = NaN THEN NaN
    ELSE IF ~IsFinite(b) THEN (IF IsFinite(a) THEN Zero ELSE NaN)
    ELSE IF ~IsFinite(a) THEN Inf(IF b.m < 0 THEN -a.m ELSE a.m)
    ELSE IF b.m = 0 THEN (IF a.m = 0 THEN NaN ELSE Inf(Sign(a.m)))
    ELSE IF a.m = 0 THEN Zero
    ELSE DivFinite(Sign(a.m) * Sign(b.m), Normal(a), Normal(b))

\* x < y for two values of one sign, both of MANTISSA_BITS bits
Below(x, y) ==
    IF x.m > 0 THEN x.e < y.e \/ (x.e = y.e /\ x.m < y.m)
    ELSE x.e > y.e \/ (x.e = y.e /\ x.m < y.m)

\* a < b: by sign, then by exponent and mantissa (an infinity has the largest
\* exponent); every comparison with NaN is false
FLt(a, b) ==
    IF a = NaN \/ b = NaN THEN FALSE
    ELSE IF Sign(a.m) # Sign(b.m) THEN Sign(a.m) < Sign(b.m)
    ELSE IF a.m = 0 THEN FALSE
    ELSE Below(Normal(a), Normal(b))

FLe(a, b) == a # NaN /\ b # NaN /\ (a = b \/ FLt(a, b))

\* tf.maximum(a, b) and tf.minimum(a, b): a < b ? b : a and b < a ? b : a
Maximum(a, b) == IF FLt(a, b) THEN b ELSE a
Minimum(a, b) == IF FLt(b, a) THEN b ELSE a

\* tf.to_int32 of a finite float of crop (at most the image's size):
\* truncation toward zero
ToInt32(a) ==
    IF a.e >= 0 THEN a.m * Pow2(a.e)
    ELSE Sign(a.m) * (IF -a.e > 30 THEN 0 ELSE Abs(a.m) \div Pow2(-a.e))

\* tf.clip_by_value(t, clip_value_min, clip_value_max), elementwise
ClipByValue(x, lo, hi) == Maximum(Minimum(x, hi), lo)

----------------------------------------------------------------------------
(* crop, lines 143-164 *)

InvalidArgumentError == "InvalidArgumentError"

\* tf.image.crop_to_bounding_box (called at lines 156-159): the shape of the
\* slice, or the failure of one of the op's run-time assertions (offsets >= 0,
\* targets > 0, offset + target within the image)
CropToBoundingBox(img, offset_height, offset_width, target_height, target_width) ==
    IF /\ offset_width >= 0 /\ offset_height >= 0
       /\ target_width > 0 /\ target_height > 0
       /\ img[2] >= target_width + offset_width
       /\ img[1] >= target_height + offset_height
    THEN <<target_height, target_width, img[3]>>
    ELSE InvalidArgumentError

MarginWhole(h) == h

\* line 150: margin_y, margin_x = h / 2.0, w / 2.0
Margin(h) == FDiv(h, ToFloat(2))

\* lines 152-153: the bounds pushed outwards by 0.5 * margin
ExpandMin(lo, margin) == FSub(lo, FMul(Half, margin))
ExpandMax(hi, margin) == FAdd(hi, FMul(Half, margin))

ClampMaxMissing(hi, size) == hi

\* lines 154-155: tf.maximum(.., 0.0) and tf.minimum(.., image_h / image_w)
ClampMin(lo) == Maximum(lo, Zero)
ClampMax(hi, size) == Minimum(hi, size)

\* lines 161-163: landmarks = (landmarks * scaler) - shift, per axis
Rebase(p, size, lo, hi) ==
    FSub(FMul(p, FDiv(size, FSub(hi, lo))), FDiv(lo, FSub(hi, lo)))

crop(img, lms, bx) ==
    LET image_h == ToFloat(img[1])
        image_w == ToFloat(img[2])
        scaler == <<image_h, image_w, image_h, image_w>>
        pbox == [i \in 1..4 |-> FMul(bx[i], scaler[i])]
        h == FSub(pbox[3], pbox[1])
        w == FSub(pbox[4], pbox[2])
        margin_y == Margin(h)
        margin_x == Margin(w)
        ymin1 == ExpandMin(pbox[1], margin_y)
        xmin1 == ExpandMin(pbox[2], margin_x)
        ymax1 == ExpandMax(pbox[3], margin_y)
        xmax1 == ExpandMax(pbox[4], margin_x)
        ymin == ClampMin(ymin1)
        xmin == ClampMin(xmin1)
        ymax == ClampMax(ymax1, image_h)
        xmax == ClampMax(xmax1, image_w)
        window == <<ToInt32(ymin), ToInt32(xmin),
                    ToInt32(FSub(ymax, ymin)), ToInt32(FSub(xmax, xmin))>>
    IN [image |-> CropToBoundingBox(img, window[1], window[2], window[3], window[4]),
        landmarks |-> [i \in 1..Len(lms) |->
                          <<Rebase(lms[i][1], image_h, ymin, ymax),
                            Rebase(lms[i][2], image_w, xmin, xmax)>>],
        pixel_box |-> pbox,
        expanded |-> <<ymin1, xmin1, ymax1, xmax1>>,
        clamped |-> <<ymin, xmin, ymax, xmax>>,
        window |-> window]

----------------------------------------------------------------------------
(* _parse_and_preprocess, lines 72-122, and _augmentation_fn, lines 124-140  *)

\* lines 95-96: decode_jpeg(channels=3); the record holds the picture's size
DecodeJpeg(img) == <<img[1], img[2], CHANNELS>>

\* lines 100-105: stack the four scalars, clip to [0, 1]
ParseBox(proto) ==
    [i \in 1..4 |-> ClipByValue(<<proto.ymin, proto.xmin, proto.ymax, proto.xmax>>[i],
                               Zero, One)]

\* lines 108-110: reshape the 2 * num_landmarks scalars to [num_landmarks, 2]
\* (row-major), clip to [0, 1]
ParseLandmarks(proto) ==
    [i \in 1..num_landmarks |->
        <<ClipByValue(proto.landmarks[2 * i - 1], Zero, One),
          ClipByValue(proto.landmarks[2 * i], Zero, One)>>]

AugmentationFnFlipFirst ==
    <<"random_flip_left_right", "random_rotation", "resize_images",
      "random_color_manipulations", "random_pixel_value_scale", "random_gaussian_blur">>

\* lines 128-139: the calls _augmentation_fn makes, in order
AugmentationFn ==
    <<"random_rotation", "resize_images", "random_color_manipulations",
      "random_pixel_value_scale", "random_gaussian_blur", "random_flip_left_right">>

\* lines 115-119: the calls of the branch without augmentation
PlainFn == <<"crop", "resize_images">>

\* lines 112-122: one of the two branches, then the transpose
Steps == (IF augmentation THEN AugmentationFn ELSE PlainFn) \o <<"transpose">>

NextOp == IF stage = "parsed" /\ Len(ops) < Len(Steps) THEN Steps[Len(ops) + 1] ELSE None

(* augmentations.py is not part of the sources: what its functions do to the *)
(* coordinates is taken from the specification.  A rotation needs sines and  *)
(* cosines, so rotated coordinates are carried as Unknown.                   *)
Unknown == "Unknown"

RandomRotation(lms) == Unknown

RandomFlipLeftRight(lms, applied) ==
    IF ~applied \/ lms = Unknown THEN lms
    ELSE [i \in 1..Len(lms) |-> <<lms[i][1], FSub(One, lms[i][2])>>]

----------------------------------------------------------------------------
(* Actions of one _parse_and_preprocess call *)

\* lines 84-110
ParseStep ==
    /\ stage = "record"
    /\ image' = DecodeJpeg(example_proto.image)
    /\ box' = ParseBox(example_proto)
    /\ landmarks' = ParseLandmarks(example_proto)
    /\ stage' = "parsed"
    /\ UNCHANGED <<pc, config, stream, example_proto, ops, region>>

\* line 115; a failed assertion of crop_to_bounding_box ends the call
CropStep ==
    /\ NextOp = "crop"
    /\ region' = crop(image, landmarks, box)
    /\ ops' = Append(ops, <<"crop", TRUE>>)
    /\ IF region'.image = InvalidArgumentError
       THEN stage' = "error" /\ UNCHANGED <<image, landmarks>>
       ELSE /\ image' = region'.image
            /\ landmarks' = region'.landmarks
            /\ UNCHANGED stage
    /\ UNCHANGED <<pc, config, stream, example_proto, box>>

\* lines 116-119 and 131-134
ResizeStep ==
    /\ NextOp = "resize_images"
    /\ image' = ResizeImages(image, <<image_height, image_width>>)
    /\ ops' = Append(ops, <<"resize_images", TRUE>>)
    /\ UNCHANGED <<pc, config, stream, stage, example_proto, box, landmarks, region>>

\* line 128
RotationStep ==
    /\ NextOp = "random_rotation"
    /\ box' = Unknown
    /\ landmarks' = RandomRotation(landmarks)
    /\ ops' = Append(ops, <<"random_rotation", TRUE>>)
    /\ UNCHANGED <<pc, config, stream, stage, example_proto, image, region>>

\* lines 136-138: the three photometric calls, each behind its own random gate
PhotometricStep(name) ==
    /\ NextOp = name
    /\ \E applied \in BOOLEAN : ops' = Append(ops, <<name, applied>>)
    /\ UNCHANGED <<pc, config, stream, stage, example_proto, image, box, landmarks, region>>

ColorStep == PhotometricStep("random_color_manipulations")
PixelScaleStep == PhotometricStep("random_pixel_value_scale")
BlurStep == PhotometricStep("random_gaussian_blur")

\* line 139
FlipStep ==
    /\ NextOp = "random_flip_left_right"
    /\ \E applied \in BOOLEAN :
        /\ landmarks' = RandomFlipLeftRight(landmarks, applied)
        /\ ops' = Append(ops, <<"random_flip_left_right", applied>>)
    /\ UNCHANGED <<pc, config, stream, stage, example_proto, image, box, region>>

\* lines 121-122
TransposeStep ==
    /\ NextOp = "transpose"
    /\ image' = Transpose(image, <<2, 0, 1>>)
    /\ ops' = Append(ops, <<"transpose", TRUE>>)
    /\ stage' = "done"
    /\ UNCHANGED <<pc, config, stream, example_proto, box, landmarks, region>>

----------------------------------------------------------------------------
(* Records.  A record is [image, ymin, xmin, ymax, xmax, landmarks]: the     *)
(* size of the encoded picture, the four box scalars and the flat list of    *)
(* 2 * num_landmarks landmark scalars.                                       *)

Grid(lo, hi) == {FDiv(ToFloat(k), ToFloat(GridDen)) : k \in lo..hi}

Records(dims, boxValues, landmarkValues, n) ==
    [image : dims \X dims,
     ymin : boxValues, xmin : boxValues, ymax : boxValues, xmax : boxValues,
     landmarks : [1..(2 * n) -> landmarkValues]]

\* a call of the map function inside a constructed pipeline
InitCall ==
    /\ pc = "ready"
    /\ filenames = <<1>>
    /\ batch_size = 1
    /\ image_width = MaxSide + 1
    /\ image_height = MaxSide
    /\ num_landmarks \in 1..MaxLandmarks
    /\ repeat = FALSE
    /\ shuffle = FALSE
    /\ num_examples = 1
    /\ files_read = 1
    /\ iterator = [order |-> <<1>>, left |-> <<1>>, read |-> 0]
    /\ calls = 0
    /\ batches = 0
    /\ batch = <<>>
    /\ stage = "record"
    /\ image = None
    /\ box = None
    /\ landmarks = None
    /\ ops = <<>>
    /\ region = None

\* records of any picture size whose scalars lie in [0, 1] and whose box is
\* a box: ymin <= ymax, xmin <= xmax (it may be empty); the landmarks lie at
\* the corners of the picture
UnitRecords(n) ==
    {r \in Records(1..MaxDim, Grid(0, GridDen), {Zero, One}, n) :
        FLe(r.ymin, r.ymax) /\ FLe(r.xmin, r.xmax)}

\* crop maps each landmark on its own (line 163): one landmark is followed
InitCrop ==
    /\ augmentation = FALSE
    /\ InitCall
    /\ num_landmarks = 1
    /\ example_proto \in UnitRecords(num_landmarks)

NextPlain == ParseStep \/ CropStep \/ ResizeStep \/ TransposeStep

SpecCrop == InitCrop /\ [][NextPlain]_vars

\* records whose scalars also fall outside [0, 1] (one grid step either side),
\* the box scalars in any order
RawRecords(n) ==
    Records({MaxDim}, Grid(-1, GridDen + 1), Grid(-1, -1) \cup Grid(GridDen + 1, GridDen + 1), n)

InitIngest ==
    /\ augmentation = FALSE
    /\ InitCall
    /\ example_proto \in RawRecords(num_landmarks)

SpecIngest == InitIngest /\ [][NextPlain]_vars

\* a few records, with and without augmentation
SampleRecords(n) == Records({MaxDim}, {Zero, One}, {Zero, One}, n)

InitOrder ==
    /\ augmentation \in BOOLEAN
    /\ InitCall
    /\ example_proto \in SampleRecords(num_landmarks)

NextCall ==
    \/ ParseStep \/ CropStep \/ RotationStep \/ ResizeStep \/ ColorStep
    \/ PixelScaleStep \/ BlurStep \/ FlipStep \/ TransposeStep

SpecOrder == InitOrder /\ [][NextCall]_vars

----------------------------------------------------------------------------
(* Properties *)

EmptyShards == {i \in 1..Len(filenames) : filenames[i] = 0}
Emitted == batch # <<>>

\* C1: without repeat, get_batch yields exactly floor(num_examples / batch_size)
\* batches before it signals the end of the sequence.
C1_FloorBatchesThenExhausted ==
    pc = "exhausted" => batches = num_examples \div batch_size

\* C2: every batch get_batch returns holds exactly batch_size examples, images
\* of shape [batch_size, 3, H, W] and landmarks of shape [batch_size, N, 2].
C2_EveryBatchFull ==
    Emitted =>
        /\ Len(batch) = batch_size
        /\ \A i \in 1..Len(batch) :
            /\ batch[i].image = <<3, image_height, image_width>>
            /\ batch[i].landmarks = <<num_landmarks, 2>>

\* C8: with a shard of zero records, construction fails in __init__: the
\* pipeline never becomes ready, no iterator is made, no batch is requested or
\* returned; the failure comes at the first empty shard, the files after it
\* are not read.
C8_EmptyShardFailsConstruction ==
    EmptyShards # {} =>
        /\ pc \in {"new", "failed"}
        /\ iterator = None
        /\ calls = 0 /\ batches = 0 /\ batch = <<>>
        /\ pc = "failed" =>
            /\ files_read \in EmptyShards
            /\ \A i \in EmptyShards : files_read <= i

\* C8 witness: construction has failed at an empty shard that is followed by
\* a shard with records.
C8_Witness ==
    /\ pc = "failed"
    /\ files_read \in EmptyShards
    /\ files_read < Len(filenames)
    /\ filenames[Len(filenames)] > 0

----------------------------------------------------------------------------
(* Properties of crop and of one _parse_and_preprocess call *)

Cropped == ops # <<>> /\ ops[1][1] = "crop"
ImageH == ToFloat(example_proto.image[1])
ImageW == ToFloat(example_proto.image[2])
PixelBox == <<FMul(box[1], ImageH), FMul(box[2], ImageW),
              FMul(box[3], ImageH), FMul(box[4], ImageW)>>
BoxH == FSub(PixelBox[3], PixelBox[1])
BoxW == FSub(PixelBox[4], PixelBox[2])
InUnit(a) == IsFinite(a) /\ FLe(Zero, a) /\ FLe(a, One)

\* C3: before clamping, crop's region is the pixel-space box expanded on each
\* side by 50% of the box's size along that axis (ymin - h/2, ymax + h/2,
\* xmin - w/2, xmax + w/2).
C3_ExpandedByHalf ==
    Cropped =>
        region.expanded = <<FSub(PixelBox[1], FDiv(BoxH, ToFloat(2))),
                            FSub(PixelBox[2], FDiv(BoxW, ToFloat(2))),
                            FAdd(PixelBox[3], FDiv(BoxH, ToFloat(2))),
                            FAdd(PixelBox[4], FDiv(BoxW, ToFloat(2)))>>

\* C3 amended: before clamping, crop's region is the pixel-space box expanded
\* on each side by 25% of the box's size along that axis (ymin - h/4,
\* ymax + h/4, xmin - w/4, xmax + w/4).
C3_ExpandedByQuarter ==
    Cropped =>
        region.expanded = <<FSub(PixelBox[1], FDiv(BoxH, ToFloat(4))),
                            FSub(PixelBox[2], FDiv(BoxW, ToFloat(4))),
                            FAdd(PixelBox[3], FDiv(BoxH, ToFloat(4))),
                            FAdd(PixelBox[4], FDiv(BoxW, ToFloat(4)))>>

\* C3 witness: crop has run on a box of positive height and width.
C3_Witness == Cropped /\ FLt(Zero, BoxH) /\ FLt(Zero, BoxW)

\* C4: without augmentation, for a record whose clamped box has positive size,
\* every coordinate of the landmarks _parse_and_preprocess returns is in [0, 1].
C4_LandmarksInUnitRange ==
    (stage = "done" /\ ~augmentation /\ FLt(box[1], box[3]) /\ FLt(box[2], box[4])) =>
        \A i \in 1..Len(landmarks) : InUnit(landmarks[i][1]) /\ InUnit(landmarks[i][2])

\* C5: after crop each landmark coordinate is
\* (old_normalized * old_image_dim - crop_origin) / crop_extent for the origin
\* and extent of the integer region that was cut out of the image.
C5_LandmarksInCroppedFrame ==
    (Cropped /\ stage # "error") =>
        \A i \in 1..Len(landmarks) :
            /\ landmarks[i][1] =
                 FDiv(FSub(FMul(ParseLandmarks(example_proto)[i][1], ImageH),
                           ToFloat(region.window[1])), ToFloat(region.window[3]))
            /\ landmarks[i][2] =
                 FDiv(FSub(FMul(ParseLandmarks(example_proto)[i][2], ImageW),
                           ToFloat(region.window[2])), ToFloat(region.window[4]))

\* C6: whatever the raw box scalars, the box handed on by ingestion has all
\* four values in [0, 1] and ymin <= ymax, xmin <= xmax.
C6_BoxInUnitRangeAndOrdered ==
    stage # "record" =>
        /\ \A i \in 1..4 : InUnit(box[i])
        /\ FLe(box[1], box[3]) /\ FLe(box[2], box[4])

\* C7: crop never works on a degenerate region: a record whose region has no
\* height or no width is rejected before crop or is given a crop of at least
\* one pixel, and crop's landmarks are finite.
C7_DegenerateRegionGuarded ==
    Cropped =>
        /\ region.window[3] >= 1 /\ region.window[4] >= 1
        /\ \A i \in 1..Len(region.landmarks) :
            IsFinite(region.landmarks[i][1]) /\ IsFinite(region.landmarks[i][2])

OpNames == [i \in 1..Len(ops) |-> ops[i][1]]

\* C9: the transforms are called in one fixed order that depends only on the
\* augmentation flag: rotation, resize, color, pixel scale, blur, flip (rotation
\* and resize always applied, crop never) with augmentation, crop then resize
\* and nothing random without; the transpose comes last in both.
C9_FixedTransformOrder ==
    LET expected ==
            IF augmentation
            THEN <<"random_rotation", "resize_images", "random_color_manipulations",
                   "random_pixel_value_scale", "random_gaussian_blur",
                   "random_flip_left_right", "transpose">>
            ELSE <<"crop", "resize_images", "transpose">>
    IN /\ Len(ops) <= Len(expected)
       /\ OpNames = SubSeq(expected, 1, Len(ops))
       /\ \A i \in 1..Len(ops) :
            ops[i][1] \in {"random_rotation", "resize_images", "crop", "transpose"}
                => ops[i][2]
       /\ stage = "done" => OpNames = expected

\* C9 witness: an augmented call has returned, one gate closed and one open.
C9_Witness ==
    /\ stage = "done" /\ augmentation
    /\ ~ops[3][2] /\ ops[6][2]

\* C10: for a box with ymin <= ymax and xmin <= xmax in [0, 1], the integer
\* region crop hands to the image crop lies inside the image, so the image crop
\* rejects no region for being out of bounds.
C10_WindowInsideImage ==
    (Cropped /\ FLe(box[1], box[3]) /\ FLe(box[2], box[4])) =>
        /\ region.window[1] >= 0 /\ region.window[2] >= 0
        /\ region.window[1] + region.window[3] <= example_proto.image[1]
        /\ region.window[2] + region.window[4] <= example_proto.image[2]
        /\ region.image = InvalidArgumentError =>
            region.window[3] = 0 \/ region.window[4] = 0

\* C10 witness: a box on the image's edge, its expanded region cut back to the
\* image on two sides, has been cropped.
C10_Witness ==
    /\ Cropped /\ region.image # InvalidArgumentError
    /\ FLt(ImageH, region.expanded[3]) /\ region.clamped[3] = ImageH
    /\ FLt(region.expanded[2], Zero) /\ region.clamped[2] = Zero

====
